---- MODULE Spec2Model ----
(***************************************************************************)
(* Model of pytorch/train_pets.py: the Pets dataset (label parsing from    *)
(* file names), the DataLoader built by get_dataloader() and the training  *)
(* loop of train().                                                        *)
(***************************************************************************)
EXTENDS Integers, Sequences, FiniteSets, TLC

(* ---------------------------------------------------------------------- *)
(* Bounds of the model                                                     *)
(* ---------------------------------------------------------------------- *)
MaxFiles == 3
MaxBatch == 2
MaxEpochs == 2
MaxNumber == 12

(* ---------------------------------------------------------------------- *)
(* Pets: the label pattern and the vocabulary                              *)
(* ---------------------------------------------------------------------- *)

\* The character class [a-zA-Z] of Pets.pat.
Letters ==
    { "a", "b", "c", "d", "e", "f", "g", "h", "i", "j", "k", "l", "m", "n", "o", "p", "q", "r", "s", "t", "u", "v", "w", "x", "y", "z" } \cup
    { "A", "B", "C", "D", "E", "F", "G", "H", "I", "J", "K", "L", "M", "N", "O", "P", "Q", "R", "S", "T", "U", "V", "W", "X", "Y", "Z" }

\* Pets.vocab, in the order of the source.
vocab ==
    << "Abyssinian", "Bengal", "Birman", "Bombay",
       "British_Shorthair", "Egyptian_Mau", "Maine_Coon", "Persian",
       "Ragdoll", "Russian_Blue", "Siamese", "Sphynx",
       "american_bulldog", "american_pit", "basset_hound", "beagle",
       "boxer", "chihuahua", "english_cocker", "english_setter",
       "german_shorthaired", "great_pyrenees", "havanese", "japanese_chin",
       "keeshond", "leonberger", "miniature_pinscher", "newfoundland",
       "pomeranian", "pug", "saint_bernard", "samoyed",
       "scottish_terrier", "shiba_inu", "staffordshire_bull", "wheaten_terrier",
       "yorkshire_terrier" >>

\* Character p (1-indexed) of string s, as a one-character string.
CharAt(s, p) == SubSeq(s, p, p)

RECURSIVE Run(_, _, _)
\* The number of consecutive characters of class cls in s from position p
\* on: how far a greedy quantifier over cls gets there.
Run(s, p, cls) ==
    IF p <= Len(s) /\ CharAt(s, p) \in cls
    THEN 1 + Run(s, p + 1, cls)
    ELSE 0

\* Pets.pat = r'(^[a-zA-Z]+_*[a-zA-Z]+)': the ways the three quantified
\* parts can split a prefix of name. <<i, j, k>> means [a-zA-Z]+ takes
\* name[1..i], _* takes name[i+1..j] and [a-zA-Z]+ takes name[j+1..k].
PatSplits(name) ==
    LET first == 1..Run(name, 1, Letters)
        second(i) == i..(i + Run(name, i + 1, {"_"}))
        third(j) == (j + 1)..(j + Run(name, j + 1, Letters))
    IN  UNION { UNION { { <<i, j, k>> : k \in third(j) } : j \in second(i) }
                : i \in first }

\* The largest element of a non-empty set of integers.
Max(S) == CHOOSE x \in S : \A y \in S : y <= x

\* re.match with the pattern cut to r'(^[a-zA-Z]+)'.
re_match_first_run(name) ==
    IF Run(name, 1, Letters) = 0
    THEN [matched |-> FALSE, group0 |-> ""]
    ELSE [matched |-> TRUE, group0 |-> SubSeq(name, 1, Run(name, 1, Letters))]

\* re.match(self.pat, file.name): the match object (group 0), or None. A
\* backtracking matcher with greedy quantifiers tries the splits with the
\* longest first part first, then the longest second part, then the
\* longest third part, and returns the first that matches.
re_match(name) ==
    LET splits == PatSplits(name)
    IN  IF splits = {}
        THEN [matched |-> FALSE, group0 |-> ""]
        ELSE LET i == Max({ t[1] : t \in splits })
                 j == Max({ t[2] : t \in { u \in splits : u[1] = i } })
                 k == Max({ t[3] : t \in { u \in splits : u[1] = i /\ u[2] = j } })
             IN  [matched |-> TRUE, group0 |-> SubSeq(name, 1, k)]

\* Pets.vocab_map = {v: i for i, v in enumerate(vocab)}: a later entry of
\* the same name would overwrite an earlier one.
vocab_map ==
    [ v \in { vocab[i] : i \in 1..Len(vocab) } |->
        (CHOOSE i \in 1..Len(vocab) :
            /\ vocab[i] = v
            /\ \A j \in 1..Len(vocab) : vocab[j] = v => j <= i) - 1 ]

\* self.vocab_map[re.match(self.pat, file.name)[0]]: subscripting None
\* raises TypeError, a token that is no key raises KeyError.
LabelOf(name) ==
    LET m == re_match(name)
    IN  IF ~m.matched
        THEN [err |-> "TypeError", label |-> -1]
        ELSE IF m.group0 \notin DOMAIN vocab_map
        THEN [err |-> "KeyError", label |-> -1]
        ELSE [err |-> "ok", label |-> vocab_map[m.group0]]

(* ---------------------------------------------------------------------- *)
(* File names                                                              *)
(* ---------------------------------------------------------------------- *)
Digits == "0123456789"

RECURSIVE Str(_)
\* The decimal numeral of n >= 0.
Str(n) ==
    IF n < 10 THEN CharAt(Digits, n + 1)
    ELSE Str(n \div 10) \o CharAt(Digits, (n % 10) + 1)

\* A well-formed file name of the dataset for 0-indexed position idx: a
\* vocabulary entry, an underscore, a number and the extension the glob of
\* Pets.__init__ selects.
GoodName(idx) == vocab[(idx % Len(vocab)) + 1] \o "_" \o Str(idx + 1) \o ".jpg"

\* File names that images/*.jpg can also hold: a token outside the
\* vocabulary, a vocabulary entry in the wrong case, and names the pattern
\* does not match at all.
BadNames == { "cat_12.jpg", "bengal_3.jpg", "x_1.jpg", "_7.jpg", "12.jpg" }

(* ---------------------------------------------------------------------- *)
(* State                                                                   *)
(* ---------------------------------------------------------------------- *)
VARIABLES
    files,              \* Pets.files: the file names found at construction
    batch_size,         \* config.batch_size
    epochs,             \* config.epochs
    mixed_precision,    \* config.mixed_precision
    n_steps_per_epoch,  \* computed once before the loops
    pc,                 \* position of train() in its loops
    epoch,              \* index of the epoch in progress (or of the next one)
    step,               \* enumerate() index of the batch in progress
    images,             \* current batch: the dataset indices of its images
    labels,             \* current batch: the class indices
    delivered,          \* the batches the loader yielded in this epoch
    example_ct,
    step_ct,
    clock,              \* the value perf_counter() returned last
    t0, ti, tf,
    train_loss,         \* the batch the loss value was computed on
    grads,              \* the batches whose gradients sit in the .grad buffers
    update,             \* the gradients the last optimizer.step() applied
    ops,                \* the model/optimizer calls made for the current batch
    metrics,            \* the metrics dict built last
    log,                \* the records passed to wandb.log, oldest first
    error               \* the exception that ended the run, if any

vars ==
    << files, batch_size, epochs, mixed_precision, n_steps_per_epoch, pc,
       epoch, step, images, labels, delivered, example_ct, step_ct, clock,
       t0, ti, tf, train_loss, grads, update, ops, metrics, log, error >>

\* len(train_dl.dataset)
DatasetSize == Len(files)

(* ---------------------------------------------------------------------- *)
(* Pets.__getitem__ and the DataLoader                                     *)
(* ---------------------------------------------------------------------- *)

\* __getitem__ with a fallback class for a name without a known label
\* (vocab_map.get(token, 0)).
GetItemFallback(idx) ==
    LET r == LabelOf(files[idx + 1])
    IN  [err |-> "ok", image |-> idx,
         label |-> IF r.err = "ok" THEN r.label ELSE 0]

\* Pets.__getitem__(idx), idx 0-indexed: the image (named by its index)
\* and the class index, or the exception raised.
GetItem(idx) ==
    LET r == LabelOf(files[idx + 1])
    IN  [err |-> r.err, image |-> idx, label |-> r.label]

\* The loader with drop_last=True: only full batches.
YieldsBatchDropLast(len, size) == len = size

\* Whether the loader yields a batch of len indices when size indices are
\* left: DataLoader's default drop_last=False also yields a short batch.
YieldsBatch(len, size) == len >= 1

\* The indices of 0-indexed batch s of an epoch: the default sampler is
\* sequential (shuffle=False) and cuts the index range into runs of
\* batch_size; the empty sequence when the iterator is exhausted.
BatchIndices(s) ==
    LET first == s * batch_size
        len == IF DatasetSize - first < batch_size
               THEN DatasetSize - first ELSE batch_size
    IN  IF len >= 1 /\ YieldsBatch(len, batch_size)
        THEN [ i \in 1..len |-> first + i - 1 ]
        ELSE << >>

\* The samples of batch s, fetched through __getitem__.
BatchItems(s) ==
    LET idx == BatchIndices(s)
    IN  [ i \in DOMAIN idx |-> GetItem(idx[i]) ]

\* The exception the fetch of a batch raises: that of the first sample
\* whose __getitem__ raises, "ok" when none does.
FetchError(items) ==
    LET failing == { i \in DOMAIN items : items[i].err # "ok" }
    IN  IF failing = {} THEN "ok"
        ELSE items[CHOOSE i \in failing : \A j \in failing : i <= j].err

(* ---------------------------------------------------------------------- *)
(* train()                                                                 *)
(* ---------------------------------------------------------------------- *)

\* Floor division in place of math.ceil.
FloorDiv(a, b) == a \div b

\* math.ceil(a / b) for a >= 0, b >= 1 (the quotients of the model are far
\* below the range where float division rounds).
CeilDiv(a, b) == IF a % b = 0 THEN a \div b ELSE (a \div b) + 1

\* The elapsed time between two perf_counter() calls.
Ticks == {1, 2}

\* Placeholder of the locals that are unbound before the first batch.
NoMetrics ==
    [ train_loss |-> << >>,
      train_epoch |-> [num |-> 0, den |-> 1],
      train_example_ct |-> 0,
      samples_per_sec |-> [num |-> 0, den |-> 1],
      samples_per_sec_epoch |-> [num |-> 0, den |-> 1] ]

\* The dataset sizes and batch sizes of the model.
Sizes == { <<d, b>> : d \in 0..MaxFiles, b \in 1..MaxBatch }

\* The same, with the dataset of 100 files in batches of 32.
WideSizes == Sizes \cup { <<100, 32>> }

\* A dataset of d files: well-formed names, with at most one other name
\* among the first MaxFiles.
Datasets(d) ==
    { [ i \in 1..d |-> GoodName(i - 1) ] } \cup
    { [ i \in 1..d |-> IF i = at THEN bad ELSE GoodName(i - 1) ] :
        at \in { a \in 1..d : a <= MaxFiles }, bad \in BadNames }

\* The locals of train() when it reaches its epoch loop (lines 154, 155).
Locals ==
    /\ epoch = 0
    /\ step = 0
    /\ images = << >>
    /\ labels = << >>
    /\ delivered = << >>
    /\ example_ct = 0
    /\ step_ct = 0
    /\ clock = 0
    /\ t0 = 0 /\ ti = 0 /\ tf = 0
    /\ train_loss = << >>
    /\ grads = << >>
    /\ update = << >>
    /\ ops = << >>
    /\ metrics = NoMetrics
    /\ log = << >>
    /\ error = "none"

\* The state when train() reaches its epoch loop (lines 134 to 155), for
\* the sizes in S.
InitFor(S) ==
    /\ \E sz \in S :
        /\ files \in Datasets(sz[1])
        /\ batch_size = sz[2]
        /\ n_steps_per_epoch = CeilDiv(sz[1], sz[2])
    /\ epochs \in 0..MaxEpochs
    /\ mixed_precision \in BOOLEAN
    /\ pc = "epoch"
    /\ Locals

Init == InitFor(Sizes)

InitWide == InitFor(WideSizes)

\* for epoch in range(config.epochs): t0 = perf_counter(); model.train();
\* and the inner for statement starts a fresh iterator over the loader.
EpochStart ==
    /\ pc = "epoch"
    /\ epoch < epochs
    /\ \E d \in Ticks : clock' = clock + d
    /\ t0' = clock'
    /\ step' = 0
    /\ delivered' = << >>
    /\ pc' = "fetch"
    /\ UNCHANGED << files, batch_size, epochs, mixed_precision,
                    n_steps_per_epoch, epoch, images, labels, example_ct,
                    step_ct, ti, tf, train_loss, grads, update, ops,
                    metrics, log, error >>

\* The epoch loop is exhausted: train() returns.
RunEnd ==
    /\ pc = "epoch"
    /\ epoch >= epochs
    /\ pc' = "done"
    /\ UNCHANGED << files, batch_size, epochs, mixed_precision,
                    n_steps_per_epoch, epoch, step, images, labels,
                    delivered, example_ct, step_ct, clock, t0, ti, tf,
                    train_loss, grads, update, ops, metrics, log, error >>

\* The loader yields the next batch: step, (images, labels), moved to the
\* device.
FetchBatch ==
    /\ pc = "fetch"
    /\ BatchIndices(step) # << >>
    /\ LET items == BatchItems(step)
       IN  /\ FetchError(items) = "ok"
           /\ images' = [ i \in DOMAIN items |-> items[i].image ]
           /\ labels' = [ i \in DOMAIN items |-> items[i].label ]
    /\ delivered' = Append(delivered, BatchIndices(step))
    /\ ops' = << >>
    /\ pc' = "forward"
    /\ UNCHANGED << files, batch_size, epochs, mixed_precision,
                    n_steps_per_epoch, epoch, step, example_ct, step_ct,
                    clock, t0, ti, tf, train_loss, grads, update, metrics,
                    log, error >>

\* __getitem__ raises for a sample of the next batch: the exception leaves
\* the loader, the loops and train().
FetchFail ==
    /\ pc = "fetch"
    /\ BatchIndices(step) # << >>
    /\ LET items == BatchItems(step)
       IN  /\ FetchError(items) # "ok"
           /\ error' = FetchError(items)
    /\ pc' = "failed"
    /\ UNCHANGED << files, batch_size, epochs, mixed_precision,
                    n_steps_per_epoch, epoch, step, images, labels,
                    delivered, example_ct, step_ct, clock, t0, ti, tf,
                    train_loss, grads, update, ops, metrics, log >>

\* The loader is exhausted: the inner loop ends.
EpochEnd ==
    /\ pc = "fetch"
    /\ BatchIndices(step) = << >>
    /\ epoch' = epoch + 1
    /\ pc' = "epoch"
    /\ UNCHANGED << files, batch_size, epochs, mixed_precision,
                    n_steps_per_epoch, step, images, labels, delivered,
                    example_ct, step_ct, clock, t0, ti, tf, train_loss,
                    grads, update, ops, metrics, log, error >>

\* ti = perf_counter(); outputs = model(images);
\* train_loss = loss_func(outputs, labels), under autocast() or not.
Forward(autocast) ==
    /\ pc = "forward"
    /\ mixed_precision = autocast
    /\ \E d \in Ticks : clock' = clock + d
    /\ ti' = clock'
    /\ train_loss' = [epoch |-> epoch, step |-> step, autocast |-> autocast]
    /\ ops' = ops \o << "forward", "loss" >>
    /\ pc' = "backward"
    /\ UNCHANGED << files, batch_size, epochs, mixed_precision,
                    n_steps_per_epoch, epoch, step, images, labels,
                    delivered, example_ct, step_ct, t0, tf, grads, update,
                    metrics, log, error >>

ForwardAutocast == Forward(TRUE)

ForwardFull == Forward(FALSE)

\* What train_loss.backward() leaves in the .grad buffers: it adds the
\* gradients of the loss to what is there.
Accumulate(g, loss) == Append(g, << loss.epoch, loss.step >>)

\* train_loss.backward()
Backward ==
    /\ pc = "backward"
    /\ grads' = Accumulate(grads, train_loss)
    /\ ops' = Append(ops, "backward")
    /\ pc' = "opt_step"
    /\ UNCHANGED << files, batch_size, epochs, mixed_precision,
                    n_steps_per_epoch, epoch, step, images, labels,
                    delivered, example_ct, step_ct, clock, t0, ti, tf,
                    train_loss, update, metrics, log, error >>

\* optimizer.step(): the parameters move by what the .grad buffers hold.
OptimizerStep ==
    /\ pc = "opt_step"
    /\ update' = grads
    /\ ops' = Append(ops, "step")
    /\ pc' = "zero_grad"
    /\ UNCHANGED << files, batch_size, epochs, mixed_precision,
                    n_steps_per_epoch, epoch, step, images, labels,
                    delivered, example_ct, step_ct, clock, t0, ti, tf,
                    train_loss, grads, metrics, log, error >>

\* zero_grad() left out: the buffers keep their content.
NotCleared(g) == g

\* What optimizer.zero_grad() leaves in the .grad buffers.
Cleared(g) == << >>

\* optimizer.zero_grad()
ZeroGrad ==
    /\ pc = "zero_grad"
    /\ grads' = Cleared(grads)
    /\ ops' = Append(ops, "zero_grad")
    /\ pc' = "metrics"
    /\ UNCHANGED << files, batch_size, epochs, mixed_precision,
                    n_steps_per_epoch, epoch, step, images, labels,
                    delivered, example_ct, step_ct, clock, t0, ti, tf,
                    train_loss, update, metrics, log, error >>

\* example_ct = len(images): assigned, not added.
CountExamplesAssigned(ct, batch) == Len(batch)

\* example_ct += len(images)
CountExamples(ct, batch) == ct + Len(batch)

\* "train/epoch" without the + 1.
TrainEpochFromZero(s, e) ==
    [num |-> s + (n_steps_per_epoch * e), den |-> n_steps_per_epoch]

\* "train/epoch": (step + 1 + (n_steps_per_epoch * epoch)) / n_steps_per_epoch,
\* kept as numerator and denominator.
TrainEpoch(s, e) ==
    [num |-> s + 1 + (n_steps_per_epoch * e), den |-> n_steps_per_epoch]

\* The metrics dict of lines 177 to 181; the quotients are kept as
\* numerator and denominator.
MetricsDict(ct, now) ==
    [ train_loss |-> train_loss,
      train_epoch |-> TrainEpoch(step, epoch),
      train_example_ct |-> ct,
      samples_per_sec |-> [num |-> Len(images), den |-> now - ti],
      samples_per_sec_epoch |-> [num |-> ct, den |-> now - t0] ]

\* if step + 1 <= n_steps_per_epoch: the last batch is logged too.
ShouldLogAll(s) == s + 1 <= n_steps_per_epoch

\* if step + 1 < n_steps_per_epoch
ShouldLog(s) == s + 1 < n_steps_per_epoch

\* What wandb.log(m) adds to the run's history, tagged with the batch it
\* was logged for. The elapsed times stay in metrics.
Logged(m) ==
    [ epoch |-> epoch, step |-> step, len_images |-> Len(images),
      train_loss |-> m.train_loss, train_epoch |-> m.train_epoch,
      train_example_ct |-> m.train_example_ct,
      samples_per_sec_num |-> m.samples_per_sec.num,
      samples_per_sec_epoch_num |-> m.samples_per_sec_epoch.num ]

\* tf = perf_counter(); example_ct += len(images); metrics = {...};
\* the conditional wandb.log(metrics); step_ct += 1; and enumerate()
\* moves on to the next step.
Metrics ==
    /\ pc = "metrics"
    /\ \E d \in Ticks : clock' = clock + d
    /\ tf' = clock'
    /\ example_ct' = CountExamples(example_ct, images)
    /\ metrics' = MetricsDict(example_ct', tf')
    /\ log' = IF ShouldLog(step) THEN Append(log, Logged(metrics')) ELSE log
    /\ step_ct' = step_ct + 1
    /\ step' = step + 1
    /\ pc' = "fetch"
    /\ UNCHANGED << files, batch_size, epochs, mixed_precision,
                    n_steps_per_epoch, epoch, images, labels, delivered,
                    t0, ti, train_loss, grads, update, ops, error >>

Next ==
    \/ EpochStart
    \/ RunEnd
    \/ FetchBatch
    \/ FetchFail
    \/ EpochEnd
    \/ ForwardAutocast
    \/ ForwardFull
    \/ Backward
    \/ OptimizerStep
    \/ ZeroGrad
    \/ Metrics

Spec == Init /\ [][Next]_vars

SpecWide == InitWide /\ [][Next]_vars

(* ---------------------------------------------------------------------- *)
(* Pets.__getitem__ on its own                                             *)
(* ---------------------------------------------------------------------- *)

\* The numerals of the file names: plain and zero-padded.
Numerals == { Str(n) : n \in 0..MaxNumber } \cup { "007" }

\* A vocabulary entry, an underscore, digits and the extension.
LabelledName(v, digits) == vocab[v] \o "_" \o digits \o ".jpg"

\* The file names __getitem__ is applied to.
LabelNames ==
    { LabelledName(v, d) : v \in 1..Len(vocab), d \in Numerals } \cup BadNames

\* A dataset of one file, before __getitem__(0) is called.
LabelInit ==
    /\ \E name \in LabelNames : files = << name >>
    /\ batch_size = 1
    /\ n_steps_per_epoch = CeilDiv(1, 1)
    /\ epochs = 0
    /\ mixed_precision = FALSE
    /\ pc = "getitem"
    /\ Locals

\* Pets.__getitem__(0) returns (image, label).
GetItemReturn ==
    /\ pc = "getitem"
    /\ GetItem(0).err = "ok"
    /\ images' = << GetItem(0).image >>
    /\ labels' = << GetItem(0).label >>
    /\ pc' = "returned"
    /\ UNCHANGED << files, batch_size, epochs, mixed_precision,
                    n_steps_per_epoch, epoch, step, delivered, example_ct,
                    step_ct, clock, t0, ti, tf, train_loss, grads, update,
                    ops, metrics, log, error >>

\* Pets.__getitem__(0) raises.
GetItemRaise ==
    /\ pc = "getitem"
    /\ GetItem(0).err # "ok"
    /\ error' = GetItem(0).err
    /\ pc' = "raised"
    /\ UNCHANGED << files, batch_size, epochs, mixed_precision,
                    n_steps_per_epoch, epoch, step, images, labels,
                    delivered, example_ct, step_ct, clock, t0, ti, tf,
                    train_loss, grads, update, ops, metrics, log >>

LabelNext == GetItemReturn \/ GetItemRaise

SpecLabel == LabelInit /\ [][LabelNext]_vars

(* ---------------------------------------------------------------------- *)
(* Properties                                                              *)
(* ---------------------------------------------------------------------- *)

\* ceil(a / b) stated by its defining inequalities.
Ceiling(a, b) == CHOOSE q \in 0..a : q * b >= a /\ (q = 0 \/ (q - 1) * b < a)

\* The number of batches of one epoch.
StepsPerEpoch == Ceiling(DatasetSize, batch_size)

RECURSIVE SumLen(_)
\* The total length of the batches of a sequence.
SumLen(batches) ==
    IF batches = << >> THEN 0 ELSE Len(Head(batches)) + SumLen(Tail(batches))

\* The calls made for one batch, in order.
BatchOps == << "forward", "loss", "backward", "step", "zero_grad" >>

\* The positions of train() between the fetch of a batch and its metrics.
InBatch == { "forward", "backward", "opt_step", "zero_grad", "metrics" }

\* The epochs that have run to their end.
CompletedEpochs == 0..(epoch - 1)

\* The steps of epoch e for which a record was logged.
LoggedSteps(e) == { log[i].step : i \in { j \in DOMAIN log : log[j].epoch = e } }

\* The number of records logged for epoch e.
LoggedCount(e) == Cardinality({ i \in DOMAIN log : log[i].epoch = e })

\* C1: with at least one file, every completed epoch has logged a record
\* for each of its batches but the last one, steps_per_epoch - 1 records,
\* and a run that ends has logged epochs * (steps_per_epoch - 1) records.
C1_MetricsForAllButLastBatch ==
    DatasetSize >= 1 =>
        /\ \A e \in CompletedEpochs :
            /\ LoggedSteps(e) = 0..(StepsPerEpoch - 2)
            /\ LoggedCount(e) = StepsPerEpoch - 1
        /\ pc = "done" => Len(log) = epochs * (StepsPerEpoch - 1)

\* A run of 2 epochs of 4 steps has ended with exactly 6 records, and a
\* run with one step per epoch would have none.
C1_Witness ==
    /\ pc = "done" /\ epochs = 2 /\ StepsPerEpoch = 4 /\ Len(log) = 6

\* C2: example_ct starts at 0, grows at every batch and changes nowhere
\* else, and when the dataset size is a multiple of the batch size it is
\* e * dataset_size at the end of the e-th epoch.
C2_ExampleCtMonotonic ==
    /\ example_ct = 0
    /\ [][ /\ pc = "metrics" => example_ct' > example_ct
           /\ pc # "metrics" => example_ct' = example_ct ]_vars
    /\ [](pc \in {"epoch", "done"} /\ DatasetSize % batch_size = 0
            => example_ct = epoch * DatasetSize)

\* Two epochs over an evenly divided dataset of several batches have ended.
C2_Witness ==
    /\ pc = "done" /\ epoch = 2 /\ DatasetSize % batch_size = 0
    /\ DatasetSize >= 2 * batch_size /\ example_ct = 2 * DatasetSize

\* The places (batch, position) at which the loader delivered index x.
DeliveredAt(x) ==
    { bp \in { <<b, i>> : b \in DOMAIN delivered, i \in 1..batch_size } :
        bp[2] \in DOMAIN delivered[bp[1]] /\ delivered[bp[1]][bp[2]] = x }

\* C3: no index is ever delivered twice in an epoch; when the loader is
\* exhausted every index of the dataset was delivered exactly once and the
\* batch sizes sum to the dataset size; and when the dataset size is no
\* multiple of the batch size the last batch is shorter, was delivered and
\* went through the whole training step.
C3_EachSampleOncePerEpoch ==
    /\ \A x \in 0..(DatasetSize - 1) : Cardinality(DeliveredAt(x)) <= 1
    /\ (pc = "epoch" /\ epoch >= 1) =>
        /\ \A x \in 0..(DatasetSize - 1) : Cardinality(DeliveredAt(x)) = 1
        /\ SumLen(delivered) = DatasetSize
        /\ DatasetSize % batch_size # 0 =>
            /\ Len(delivered[Len(delivered)]) = DatasetSize % batch_size
            /\ images = delivered[Len(delivered)]
            /\ ops = BatchOps
            /\ example_ct = epoch * DatasetSize

\* An epoch over a dataset that does not divide evenly has ended after
\* several batches.
C3_Witness ==
    /\ pc = "epoch" /\ epoch >= 1 /\ DatasetSize % batch_size # 0
    /\ Len(delivered) >= 2 /\ Len(images) < batch_size

\* C4: n_steps_per_epoch is ceil(dataset_size / batch_size); the inner
\* loop iterates that many batches in every epoch, so no step index
\* exceeds n_steps_per_epoch - 1 and the last batch has
\* dataset_size - (n_steps_per_epoch - 1) * batch_size samples; 100 files
\* in batches of 32 give 4 steps and a last batch of 4.
C4_StepsPerEpochIsCeiling ==
    /\ n_steps_per_epoch = StepsPerEpoch
    /\ pc \in InBatch => step <= n_steps_per_epoch - 1
    /\ (pc = "epoch" /\ epoch >= 1) =>
        /\ step = n_steps_per_epoch
        /\ Len(delivered) = n_steps_per_epoch
        /\ DatasetSize >= 1 =>
            Len(images) = DatasetSize - (n_steps_per_epoch - 1) * batch_size
    /\ (DatasetSize = 100 /\ batch_size = 32) =>
        /\ n_steps_per_epoch = 4
        /\ (pc = "epoch" /\ epoch >= 1) => Len(images) = 4

\* An epoch over 100 files in batches of 32 has ended.
C4_Witness ==
    /\ DatasetSize = 100 /\ batch_size = 32 /\ pc = "epoch" /\ epoch = 1
    /\ step = 4 /\ Len(images) = 4

\* C5: for every vocabulary entry v and every name made of v, an
\* underscore, digits and the extension, the pattern extracts exactly v and
\* __getitem__ returns the position of v in vocab; vocab_map is a
\* bijection from the 37 entries onto 0..36.
C5_LabelIsVocabIndex ==
    /\ \A v \in 1..Len(vocab) : \A d \in Numerals :
        files = << LabelledName(v, d) >> =>
            /\ pc # "raised"
            /\ pc = "returned" => labels = << v - 1 >>
    /\ Len(vocab) = 37
    /\ Cardinality(DOMAIN vocab_map) = 37
    /\ { vocab_map[w] : w \in DOMAIN vocab_map } = 0..36
    /\ \A v \in 1..Len(vocab) : vocab_map[vocab[v]] = v - 1

\* __getitem__ has returned the label of a name whose entry holds an
\* underscore, followed by a padded numeral.
C5_Witness ==
    /\ pc = "returned"
    /\ files = << "British_Shorthair_007.jpg" >>
    /\ labels = << 4 >>

\* The indices of the files whose name yields no token or a token outside
\* the vocabulary.
Unlabelled ==
    { i \in 0..(DatasetSize - 1) : LabelOf(files[i + 1]).err # "ok" }

\* C6: with an unlabelled file i, whose batch is b = i div batch_size: the
\* fetch of batch b ends the run with the exception of __getitem__, nothing
\* happens after it, and so no training step, counter update or record
\* exists for batch b or a later one, and sample i is never delivered.
C6_BadLabelAbortsRun ==
    /\ [](\A i \in Unlabelled :
            LET b == i \div batch_size
            IN  /\ epoch = 0
                /\ step <= b
                /\ pc \in InBatch => step < b
                /\ step_ct <= b
                /\ example_ct <= b * batch_size
                /\ Len(log) <= b
                /\ Len(delivered) <= b
                /\ \A k \in DOMAIN images : images[k] # i
                /\ pc = "done" => epochs = 0
                /\ pc = "failed" => step = b /\ error \in {"KeyError", "TypeError"})
    /\ [][ /\ pc # "failed"
           /\ (pc = "fetch" /\ \E i \in Unlabelled : i \div batch_size = step)
                => pc' = "failed" ]_vars

\* The run has failed on a later batch, after earlier ones were trained on.
C6_Witness ==
    /\ pc = "failed" /\ step >= 1 /\ step_ct = step /\ Unlabelled # {}
    /\ example_ct = step * batch_size

\* C7: after every batch, samples_per_sec_epoch is the number of examples
\* processed since the start of the current epoch over the time elapsed
\* since t0.
C7_EpochThroughputSinceEpochStart ==
    (pc = "fetch" /\ step >= 1) =>
        /\ metrics.samples_per_sec_epoch.num = SumLen(delivered)
        /\ metrics.samples_per_sec_epoch.den = tf - t0

\* C8: train/epoch at step s of epoch e is
\* (s + 1 + steps_per_epoch * e) / steps_per_epoch; it grows from each
\* batch to the next; and at the last step of epoch e it is e + 1.
C8_FractionalEpoch ==
    /\ []((pc = "fetch" /\ step >= 1) =>
            /\ metrics.train_epoch.num = (step - 1) + 1 + StepsPerEpoch * epoch
            /\ metrics.train_epoch.den = StepsPerEpoch
            /\ step * batch_size >= DatasetSize =>
                metrics.train_epoch.num = (epoch + 1) * metrics.train_epoch.den)
    /\ [][ (pc = "metrics" /\ step_ct >= 1) =>
             metrics'.train_epoch.num * metrics.train_epoch.den
               > metrics.train_epoch.num * metrics'.train_epoch.den ]_vars

\* Step 3 of epoch 0 with 4 steps per epoch has given 4 / 4.
C8_Witness ==
    /\ pc = "fetch" /\ epoch = 0 /\ step = 4 /\ StepsPerEpoch = 4
    /\ metrics.train_epoch = [num |-> 4, den |-> 4]

\* The calls that have been made for the current batch at position p.
OpsAt(p) ==
    CASE p = "forward" -> << >>
      [] p = "backward" -> SubSeq(BatchOps, 1, 2)
      [] p = "opt_step" -> SubSeq(BatchOps, 1, 3)
      [] p = "zero_grad" -> SubSeq(BatchOps, 1, 4)
      [] OTHER -> BatchOps

\* C9: the calls for a batch are forward, loss, backward, step, zero_grad,
\* once each and in that order; the gradient buffers are empty when
\* backward starts, and each optimizer step applies the gradients of the
\* current batch alone; the loss is computed under autocast exactly when
\* mixed precision is on.
C9_OneBatchPerUpdate ==
    /\ pc \in InBatch => ops = OpsAt(pc)
    /\ (pc = "fetch" /\ step >= 1) => ops = BatchOps
    /\ pc = "backward" => grads = << >>
    /\ pc = "opt_step" => grads = << <<epoch, step>> >>
    /\ pc = "zero_grad" => update = << <<epoch, step>> >>
    /\ pc \in InBatch \ {"forward"} =>
        train_loss = [epoch |-> epoch, step |-> step,
                      autocast |-> mixed_precision]

\* A later batch of a later epoch has been applied under mixed precision.
C9_Witness ==
    /\ pc = "zero_grad" /\ mixed_precision /\ epoch >= 1 /\ step >= 1
    /\ update = << <<epoch, step>> >>

\* C10: every logged record is of a full batch: its batch has batch_size
\* samples, which is the numerator of its samples_per_sec, and its
\* train/example_ct is epoch * dataset_size + (step + 1) * batch_size.
C10_LoggedRecordsAreFullBatches ==
    \A i \in DOMAIN log :
        /\ log[i].len_images = batch_size
        /\ log[i].samples_per_sec_num = batch_size
        /\ log[i].train_example_ct =
              log[i].epoch * DatasetSize + (log[i].step + 1) * batch_size

\* A run over a dataset with a short last batch has ended with records of
\* two epochs.
C10_Witness ==
    /\ pc = "done" /\ epochs = 2 /\ DatasetSize % batch_size # 0
    /\ Len(log) >= 2 /\ log[Len(log)].epoch = 1

====
